---- MODULE Spec2Model ----
(***************************************************************************)
(* wayland-recorder: the segment store, the segment discovery poller, the  *)
(* clip assembler and the recording controller's control loop              *)
(* (lib/segments.go, lib/merge.go, lib/gstreamer.go).                      *)
(*                                                                         *)
(* Time is counted in whole seconds (BufferDuration and SegmentDuration    *)
(* are whole seconds, the poller sleeps one second).  A call that holds    *)
(* the store's mutex is one step.                                          *)
(***************************************************************************)
EXTENDS Integers, Sequences, FiniteSets, TLC

(* ------------------------------ bounds -------------------------------- *)

\* the segment file names segment_00001 .. segment_<NumFiles> of the temp directory
NumFiles == 3
\* the encoder writes the first EncFiles of them in a session
EncFiles == 2
\* the clock stops at MaxTime
MaxTime == 4
\* BufferDuration is drawn from 1..MaxBuffer, SegmentDuration from 1..MaxSegDur
MaxBuffer == 1
MaxSegDur == 1
\* clip-trigger signals delivered in one session
MaxTriggers == 2
\* AddSegment calls and the largest duration asked in the store-only specification
MaxAdds == 3
MaxQuery == 4
\* length of the segment list handed to MergeSegments in the assembler-only specification
MaxMerge == 3
\* the last poll of a poller session
MaxPollTime == 6

(* ------------------------- program constants -------------------------- *)

minSegmentSize == 1024
\* make(chan os.Signal, 1)
ClipChanCap == 1
\* clipCounter := 1
FirstClip == 1
\* time.Sleep(1 * time.Second)
PollInterval == 1
\* the defaults that applyDefaults gives a clip-mode session
defaultSegmentDuration == 5
defaultBufferDuration == 30

Paths == 1..NumFiles
NoFile == -1
NoSize == -1
\* the sizes a segment file is observed with: below, at and above the threshold
Sizes == {minSegmentSize - 1, minSegmentSize, minSegmentSize + 1}

VARIABLES
    now,             \* time.Now(), in seconds
    fsize,           \* the temp directory: path -> size of the file, NoFile when absent
    manifest,        \* concat_list.txt of the temp directory: whether it exists, its lines
    outputs,         \* the clip files written so far
    segments,        \* SegmentManager.segments
    maxDuration,     \* SegmentManager.maxDuration
    hasManager,      \* segmentManager != nil
    seen,            \* segmentTracker.seen
    fileSize,        \* segmentTracker.fileSize, NoSize when the path has no entry
    nextNumber,      \* segmentTracker.nextNumber
    clipMode,        \* opts.ClipMode
    bufferDuration,  \* opts.BufferDuration
    segmentDuration, \* opts.SegmentDuration
    ctl,             \* the controller: Idle, Running, Stopping, Stopped, Failed
    result,          \* what Capture returned: none, nil, error
    procAlive,       \* the recorder process (and with it every goroutine) is alive
    encoder,         \* the GStreamer subprocess: notStarted, startFailed, running, exited, reaped
    sigintSent,      \* cmd.Process.Signal(SIGINT) has succeeded
    tempDir,         \* opts.TempDir exists on disk
    pidFile,         \* the tracking file exists on disk
    clipChan,        \* number of signals buffered in signals.clip
    intChan,         \* number of signals buffered in signals.interrupt
    finChan,         \* signals.finished: <<>> or <<exit status>>
    clipCounter,     \* processSignals' clipCounter
    tasks,           \* the createClipAsync goroutines, in spawn order
    arrived,         \* history: clip-trigger signals delivered while the loop runs
    handled,         \* history: clip-trigger events the loop has taken from signals.clip
    terminal,        \* history: the terminal events the loop has handled
    lastQuery,       \* history: the last GetRecentSegments call and what it returned,
                     \* and the call before it if no add came between the two
    mu,              \* sm.mu: free, or the call that holds it (add, get)
    addPc,           \* where an AddSegment call stands: idle, locked, appended, swept
    getPc            \* where a GetRecentSegments call stands: idle, locked, read

vars == <<now, fsize, manifest, outputs, segments, maxDuration, hasManager, seen,
          fileSize, nextNumber, clipMode, bufferDuration, segmentDuration, ctl,
          result, procAlive, encoder, sigintSent, tempDir, pidFile, clipChan,
          intChan, finChan, clipCounter, tasks, arrived, handled, terminal,
          lastQuery, mu, addPc, getPc>>

storeVars == <<segments, maxDuration, hasManager>>
trackerVars == <<seen, fileSize, nextNumber>>
optVars == <<clipMode, bufferDuration, segmentDuration>>
chanVars == <<clipChan, intChan, finChan>>
histVars == <<arrived, handled, terminal, lastQuery>>
lockVars == <<mu, addPc, getPc>>

NoQuery == [d |-> -1, at |-> -1, res |-> <<>>, prev |-> <<>>]
NoManifest == [exists |-> FALSE, lines |-> <<>>]

(* --------------------------- Segment Store ---------------------------- *)

SegmentInfo(path, t, number) == [Path |-> path, StartTime |-> t, Number |-> number]

\* seg.StartTime.After(cutoffTime), cutoffTime = time.Now().Add(-d)
After(startTime, t, d) == startTime > t - d

\* the sweep left out: every segment is kept
isKept_noSweep(seg, t) == TRUE

\* After written as "not Before": a segment exactly maxDuration old is kept
isKept_notBefore(seg, t) == seg.StartTime >= t - maxDuration

\* the test of the sweep turned round
isKept_inverted(seg, t) == ~After(seg.StartTime, t, maxDuration)

\* a store sized to bufferDuration alone
isKept_bufferOnly(seg, t) == After(seg.StartTime, t, bufferDuration)

isKept(seg, t) == After(seg.StartTime, t, maxDuration)

\* After written as "not Before": a segment exactly d old is returned too
isRecent_notBefore(seg, t, d) == seg.StartTime >= t - d

\* Before in place of After
isRecent_before(seg, t, d) == seg.StartTime < t - d

\* the cutoff left out: every stored segment is recent
isRecent_noCutoff(seg, t, d) == TRUE

isRecent(seg, t, d) == After(seg.StartTime, t, d)

\* the expired segment's file left on disk
removeFile_kept(fs, path) == fs

\* os.Remove(seg.Path)
removeFile(fs, path) == [fs EXCEPT ![path] = NoFile]

\* the loop of cleanupOldSegments over segs[i..]: the kept list and the files left
RECURSIVE cleanupLoop(_, _, _, _, _)
cleanupLoop(segs, i, kept, fs, t) ==
    IF i > Len(segs) THEN [segments |-> kept, fsize |-> fs]
    ELSE IF isKept(segs[i], t)
         THEN cleanupLoop(segs, i + 1, Append(kept, segs[i]), fs, t)
         ELSE cleanupLoop(segs, i + 1, kept, removeFile(fs, segs[i].Path), t)

cleanupOldSegments(segs, fs, t) == cleanupLoop(segs, 1, <<>>, fs, t)

\* the new segment put at the head of the list
appendSegment_front(segs, seg) == <<seg>> \o segs

\* sm.segments = append(sm.segments, segment)
appendSegment(segs, seg) == Append(segs, seg)

\* AddSegment: append, then sweep; the result is the new list and the files left
AddSegment(segs, fs, path, number, t) ==
    cleanupOldSegments(appendSegment(segs, SegmentInfo(path, t, number)), fs, t)

RECURSIVE recentLoop(_, _, _, _, _)
recentLoop(segs, i, recent, t, d) ==
    IF i > Len(segs) THEN recent
    ELSE IF isRecent(segs[i], t, d)
         THEN recentLoop(segs, i + 1, Append(recent, segs[i]), t, d)
         ELSE recentLoop(segs, i + 1, recent, t, d)

GetRecentSegments(segs, t, d) == recentLoop(segs, 1, <<>>, t, d)

\* a read that sweeps the store as an add does
readLeaves_swept(segs, fs, t) == cleanupOldSegments(segs, fs, t)

\* the store's list and the files when GetRecentSegments returns: it assigns
\* to its local recent only
readLeaves(segs, fs, t) == [segments |-> segs, fsize |-> fs]

(* ------------------------------- Init --------------------------------- *)

InitCommon ==
    /\ now = 0
    /\ manifest = NoManifest
    /\ outputs = {}
    /\ segments = <<>>
    /\ seen = {}
    /\ fileSize = [p \in Paths |-> NoSize]
    /\ nextNumber = 0
    /\ ctl = "Idle"
    /\ result = "none"
    /\ procAlive = TRUE
    /\ encoder = "notStarted"
    /\ sigintSent = FALSE
    /\ pidFile = FALSE
    /\ clipChan = 0
    /\ intChan = 0
    /\ finChan = <<>>
    /\ clipCounter = 0
    /\ arrived = 0
    /\ handled = 0
    /\ terminal = <<>>
    /\ lastQuery = NoQuery
    /\ mu = "free"
    /\ addPc = "idle"
    /\ getPc = "idle"

Init ==
    /\ InitCommon
    /\ tasks = <<>>
    /\ fsize = [p \in Paths |-> NoFile]
    /\ maxDuration = 0
    /\ hasManager = FALSE
    /\ tempDir = FALSE
    /\ clipMode \in BOOLEAN
    /\ bufferDuration \in 1..MaxBuffer
    /\ segmentDuration \in 1..MaxSegDur

(* ------------------------------ clock --------------------------------- *)

\* a sweep on a timer: every second that passes runs cleanupOldSegments
Advance_sweeping ==
    /\ now < MaxTime
    /\ now' = now + 1
    /\ LET r == cleanupOldSegments(segments, fsize, now + 1) IN
       /\ segments' = r.segments
       /\ fsize' = r.fsize
    /\ UNCHANGED <<lockVars, manifest, outputs, maxDuration, hasManager, trackerVars,
                   optVars, ctl, result, procAlive, encoder, sigintSent, tempDir,
                   pidFile, chanVars, clipCounter, tasks, histVars>>

\* time passes
Advance ==
    /\ now < MaxTime
    /\ now' = now + 1
    /\ UNCHANGED <<lockVars, fsize, manifest, outputs, storeVars, trackerVars, optVars, ctl,
                   result, procAlive, encoder, sigintSent, tempDir, pidFile,
                   chanVars, clipCounter, tasks, histVars>>

(* ------------------- the store on its own (SpecStore) ------------------ *)

\* NewSegmentManager(maxDuration, tempDir) over a temp directory that holds the files
InitStore ==
    /\ InitCommon
    /\ tasks = <<>>
    /\ fsize = [p \in Paths |-> minSegmentSize + 1]
    /\ hasManager = TRUE
    /\ tempDir = TRUE
    /\ clipMode = TRUE
    /\ bufferDuration \in 1..MaxBuffer
    /\ segmentDuration \in 1..MaxSegDur
    /\ maxDuration = bufferDuration + segmentDuration

StoreAdd(path) ==
    /\ nextNumber < MaxAdds
    /\ LET r == AddSegment(segments, fsize, path, nextNumber, now) IN
       /\ segments' = r.segments
       /\ fsize' = r.fsize
    /\ nextNumber' = nextNumber + 1
    /\ lastQuery' = NoQuery
    /\ UNCHANGED <<lockVars, now, manifest, outputs, maxDuration, hasManager, seen, fileSize,
                   optVars, ctl, result, procAlive, encoder, sigintSent, tempDir,
                   pidFile, chanVars, clipCounter, tasks, arrived, handled, terminal>>

StoreQuery(d) ==
    /\ lastQuery' = [d |-> d, at |-> now, res |-> GetRecentSegments(segments, now, d),
                     prev |-> IF lastQuery.d = d
                              THEN <<[at |-> lastQuery.at, res |-> lastQuery.res]>>
                              ELSE <<>>]
    /\ LET r == readLeaves(segments, fsize, now) IN
       /\ segments' = r.segments
       /\ fsize' = r.fsize
    /\ UNCHANGED <<lockVars, now, manifest, outputs, maxDuration, hasManager, trackerVars,
                   optVars, ctl, result, procAlive, encoder, sigintSent, tempDir,
                   pidFile, chanVars, clipCounter, tasks, arrived, handled, terminal>>

NextStore ==
    \/ Advance
    \/ \E path \in Paths : StoreAdd(path)
    \/ \E d \in 0..MaxQuery : StoreQuery(d)

SpecStore == InitStore /\ [][NextStore]_vars

(* ----------------------- Segment Discovery Poller ---------------------- *)

\* the previous size is not asked for: a first observation registers
isStable_firstSight(prev, size) == size > minSegmentSize

\* exists && prevSize == info.Size() && info.Size() > minSegmentSize
isStable(prev, size) == prev # NoSize /\ prev = size /\ size > minSegmentSize

\* the seen map not asked
isSeen_never(seenPaths, path) == FALSE

\* st.seen[path]
isSeen(seenPaths, path) == path \in seenPaths

\* the increment left out
nextSegmentNumber_same(n) == n

\* st.nextNumber++
nextSegmentNumber(n) == n + 1

\* st is the tracker, the store's list and the directory; t is time.Now()
processSegment(st, path, t) ==
    IF isSeen(st.seen, path) THEN st
    ELSE IF st.fsize[path] = NoFile THEN st
    ELSE IF isStable(st.fileSize[path], st.fsize[path])
         THEN LET r == AddSegment(st.segments, st.fsize, path, st.nextNumber, t) IN
              [seen |-> st.seen \cup {path},
               fileSize |-> [st.fileSize EXCEPT ![path] = NoSize],
               nextNumber |-> nextSegmentNumber(st.nextNumber),
               segments |-> r.segments,
               fsize |-> r.fsize]
         ELSE [st EXCEPT !.fileSize[path] = st.fsize[path]]

\* for _, match := range matches: the files Glob found, in its (sorted) order
RECURSIVE pollLoop(_, _, _, _)
pollLoop(st, matches, path, t) ==
    IF path > NumFiles THEN st
    ELSE IF path \in matches
         THEN pollLoop(processSegment(st, path, t), matches, path + 1, t)
         ELSE pollLoop(st, matches, path + 1, t)

\* go MonitorSegments(...) has been started and its process is alive
pollerOn ==
    /\ clipMode /\ hasManager /\ procAlive
    /\ ctl \in {"Running", "Stopping", "Stopped"}

\* one round of MonitorSegments' loop: sleep a second, glob, process every match
PollRound ==
    /\ pollerOn
    /\ now' = now + PollInterval
    /\ LET matches == {p \in Paths : tempDir /\ fsize[p] # NoFile}
           st == pollLoop([seen |-> seen, fileSize |-> fileSize,
                           nextNumber |-> nextNumber, segments |-> segments,
                           fsize |-> fsize], matches, 1, now') IN
       /\ seen' = st.seen
       /\ fileSize' = st.fileSize
       /\ nextNumber' = st.nextNumber
       /\ segments' = st.segments
       /\ fsize' = st.fsize
    /\ UNCHANGED <<lockVars, manifest, outputs, maxDuration, hasManager, optVars, ctl, result,
                   procAlive, encoder, sigintSent, tempDir, pidFile, chanVars,
                   clipCounter, tasks, histVars>>

\* a round of the poller within the session's time
PollTick ==
    /\ now + PollInterval <= MaxTime
    /\ PollRound

(* ------------------------------ encoder -------------------------------- *)

\* splitmuxsink creates a segment file or appends to one
EncoderWrite(path, size) ==
    /\ encoder = "running" /\ clipMode /\ tempDir
    /\ fsize[path] = NoFile \/ fsize[path] < size
    /\ fsize' = [fsize EXCEPT ![path] = size]
    /\ UNCHANGED <<lockVars, now, manifest, outputs, storeVars, trackerVars, optVars, ctl,
                   result, procAlive, encoder, sigintSent, tempDir, pidFile,
                   chanVars, clipCounter, tasks, histVars>>

\* the subprocess ends, on its own or after the interrupt
EncoderExit ==
    /\ encoder = "running"
    /\ encoder' = "exited"
    /\ UNCHANGED <<lockVars, now, fsize, manifest, outputs, storeVars, trackerVars, optVars,
                   ctl, result, procAlive, sigintSent, tempDir, pidFile, chanVars,
                   clipCounter, tasks, histVars>>

\* go func() { signals.finished <- cmd.Wait() }()
WaiterSend ==
    /\ encoder = "exited" /\ procAlive
    /\ encoder' = "reaped"
    /\ \E status \in {0, 1} : finChan' = <<status>>
    /\ UNCHANGED <<lockVars, now, fsize, manifest, outputs, storeVars, trackerVars, optVars,
                   ctl, result, procAlive, sigintSent, tempDir, pidFile, clipChan,
                   intChan, clipCounter, tasks, histVars>>

(* --------------------------- Clip Assembler ---------------------------- *)

\* the poller's comparison in place of the assembler's
isValidSegment_strict(fs, path) == fs[path] # NoFile /\ fs[path] > minSegmentSize

isValidSegment(fs, path) == fs[path] # NoFile /\ fs[path] >= minSegmentSize

\* the loop of createConcatFile: the lines written to the manifest
RECURSIVE concatLoop(_, _, _, _)
concatLoop(segs, i, lines, fs) ==
    IF i > Len(segs) THEN lines
    ELSE IF isValidSegment(fs, segs[i].Path)
         THEN concatLoop(segs, i + 1, Append(lines, segs[i].Path), fs)
         ELSE concatLoop(segs, i + 1, lines, fs)

createConcatFile(segs, fs) == concatLoop(segs, 1, <<>>, fs)

NewTask(segs, out, t) ==
    [segs |-> segs, out |-> out, at |-> t, pc |-> "start", list |-> <<>>,
     read |-> NoManifest, err |-> ""]

\* the empty-list check left out
noSegments_unchecked(segs) == FALSE

\* len(segments) == 0
noSegments(segs) == Len(segs) = 0

\* the count of valid segments not looked at
noValidSegments_unchecked(lines) == FALSE

\* validSegments == 0
noValidSegments(lines) == Len(lines) = 0

\* the store's list of the moment in place of the slice that was passed
taskSegments_live(i) == segments

\* the segments parameter of createClipAsync and MergeSegments
taskSegments(i) == tasks[i].segs

\* MergeSegments up to the return of createConcatFile
MergeStart(i) ==
    /\ procAlive
    /\ tasks[i].pc = "start"
    /\ IF noSegments(taskSegments(i))
       THEN /\ tasks' = [tasks EXCEPT ![i].pc = "done", ![i].err = "no segments"]
            /\ UNCHANGED manifest
       ELSE IF ~tempDir
       THEN /\ tasks' = [tasks EXCEPT ![i].pc = "done", ![i].err = "create"]
            /\ UNCHANGED manifest
       ELSE LET lines == createConcatFile(taskSegments(i), fsize) IN
            /\ manifest' = [exists |-> TRUE, lines |-> lines]
            /\ tasks' = IF noValidSegments(lines)
                        THEN [tasks EXCEPT ![i].pc = "done", ![i].err = "no valid segments"]
                        ELSE [tasks EXCEPT ![i].pc = "concat", ![i].list = lines]
    /\ UNCHANGED <<lockVars, now, fsize, outputs, storeVars, trackerVars, optVars, ctl, result,
                   procAlive, encoder, sigintSent, tempDir, pidFile, chanVars,
                   clipCounter, histVars>>

\* runFFmpegConcat: ffmpeg reads the manifest; whether it succeeds is its own affair
MergeConcat(i) ==
    /\ procAlive
    /\ tasks[i].pc = "concat"
    /\ \E ok \in BOOLEAN :
          /\ ok => manifest.exists
          /\ tasks' = [tasks EXCEPT ![i].pc = "cleanup", ![i].read = manifest,
                                    ![i].err = IF ok THEN "" ELSE "ffmpeg"]
          /\ outputs' = IF ok THEN outputs \cup {tasks[i].out} ELSE outputs
    /\ UNCHANGED <<lockVars, now, fsize, manifest, storeVars, trackerVars, optVars, ctl, result,
                   procAlive, encoder, sigintSent, tempDir, pidFile, chanVars,
                   clipCounter, histVars>>

\* defer os.Remove(concatFilePath)
MergeCleanup(i) ==
    /\ procAlive
    /\ tasks[i].pc = "cleanup"
    /\ manifest' = NoManifest
    /\ tasks' = [tasks EXCEPT ![i].pc = "done"]
    /\ UNCHANGED <<lockVars, now, fsize, outputs, storeVars, trackerVars, optVars, ctl, result,
                   procAlive, encoder, sigintSent, tempDir, pidFile, chanVars,
                   clipCounter, histVars>>

(* ------------------------ Recording Controller ------------------------- *)

\* fmt.Sprintf("%03d", n): the decimal digits, zero-padded to three
RECURSIVE Digits(_)
Digits(n) == IF n < 10 THEN <<n>> ELSE Append(Digits(n \div 10), n % 10)

RECURSIVE Pad(_, _)
Pad(ds, width) == IF Len(ds) >= width THEN ds ELSE Pad(<<0>> \o ds, width)

generateClipPath(counter) ==
    [base |-> "base", clip |-> Pad(Digits(counter), 3), ext |-> "container"]

\* the increment left out
nextClipCounter_same(counter) == counter

\* *clipCounter++
nextClipCounter(counter) == counter + 1

\* cmd.Wait() left out of handleInterrupt
waitReturns_noWait == TRUE

\* cmd.Wait() in handleInterrupt returns once the subprocess has ended
waitReturns == encoder \in {"exited", "reaped"}

\* the handlers' results are not returned: the loop goes on after a terminal event
loopRunning_noReturn == ctl \in {"Running", "Stopped"}

\* processSignals is in its for/select loop
loopRunning == ctl = "Running"

\* the error of cmd.Start not looked at
cmdStarted_errIgnored(startOk) == TRUE

\* err == nil after cmd.Start()
cmdStarted(startOk) == startOk

\* Capture: ensureOutputDirectory, setupSegmentManager, BuildGStreamerArgs,
\* startRecording up to the call of processSignals
Capture ==
    /\ ctl = "Idle"
    /\ \E outDirOk, mkdirOk, argsOk, startOk \in BOOLEAN :
          LET manager == outDirOk /\ clipMode /\ mkdirOk
              started == outDirOk /\ argsOk /\ cmdStarted(startOk) IN
          /\ tempDir' = (outDirOk /\ clipMode /\ mkdirOk)
          /\ hasManager' = manager
          /\ maxDuration' = IF manager THEN bufferDuration + segmentDuration ELSE 0
          /\ encoder' = IF ~(outDirOk /\ argsOk) THEN "notStarted"
                        ELSE IF startOk THEN "running" ELSE "startFailed"
          /\ pidFile' = (started /\ clipMode)
          /\ clipCounter' = IF started THEN FirstClip ELSE 0
          /\ ctl' = IF started THEN "Running" ELSE "Failed"
          /\ result' = IF started THEN "none" ELSE "error"
    /\ UNCHANGED <<lockVars, now, fsize, manifest, outputs, segments, trackerVars, optVars,
                   procAlive, sigintSent, chanVars, tasks, histVars>>

\* createClipAsync called without go: the handler returns when the assembly does
handlerReturned_sync == \A i \in DOMAIN tasks : tasks[i].pc = "done"

\* go createClipAsync(...): handleClipRequest returns to the select at once
handlerReturned == TRUE

\* SIGUSR1 subscribed to whatever the mode
clipSubscribed_always == TRUE

\* if clipMode { signal.Notify(channels.clip, syscall.SIGUSR1) }
clipSubscribed == clipMode

\* SIGUSR1 is delivered: signal.Notify sends without blocking and drops the
\* signal when the channel is full; without clip mode nothing is subscribed
SignalClip ==
    /\ ctl = "Running"
    /\ arrived < MaxTriggers
    /\ arrived' = arrived + 1
    /\ clipChan' = IF clipSubscribed /\ clipChan < ClipChanCap THEN clipChan + 1 ELSE clipChan
    /\ UNCHANGED <<lockVars, now, fsize, manifest, outputs, storeVars, trackerVars, optVars,
                   ctl, result, procAlive, encoder, sigintSent, tempDir, pidFile,
                   intChan, finChan, clipCounter, tasks, handled, terminal, lastQuery>>

\* SIGINT or SIGTERM is delivered
SignalInterrupt ==
    /\ ctl = "Running"
    /\ intChan = 0
    /\ intChan' = 1
    /\ UNCHANGED <<lockVars, now, fsize, manifest, outputs, storeVars, trackerVars, optVars,
                   ctl, result, procAlive, encoder, sigintSent, tempDir, pidFile,
                   clipChan, finChan, clipCounter, tasks, histVars>>

\* the check for an empty recent list left out
noRecentSegments_unchecked(segs) == FALSE

\* len(segments) == 0 in handleClipRequest
noRecentSegments(segs) == Len(segs) = 0

\* case <-signals.clip: handleClipRequest
HandleClip ==
    /\ loopRunning
    /\ handlerReturned
    /\ clipChan > 0
    /\ clipChan' = clipChan - 1
    /\ handled' = handled + 1
    /\ IF ~hasManager
       THEN UNCHANGED <<clipCounter, tasks>>
       ELSE LET segs == GetRecentSegments(segments, now, bufferDuration) IN
            IF noRecentSegments(segs)
            THEN UNCHANGED <<clipCounter, tasks>>
            ELSE /\ tasks' = Append(tasks, NewTask(segs, generateClipPath(clipCounter), now))
                 /\ clipCounter' = nextClipCounter(clipCounter)
    /\ UNCHANGED <<lockVars, now, fsize, manifest, outputs, storeVars, trackerVars, optVars,
                   ctl, result, procAlive, encoder, sigintSent, tempDir, pidFile,
                   intChan, finChan, arrived, terminal, lastQuery>>

\* case <-signals.interrupt: handleInterrupt up to cmd.Wait()
HandleInterrupt ==
    /\ loopRunning
    /\ handlerReturned
    /\ intChan > 0
    /\ intChan' = 0
    /\ terminal' = Append(terminal, "interrupt")
    /\ IF encoder = "reaped"
       THEN \* Process.Signal fails: os: process already finished
            /\ ctl' = "Stopped"
            /\ result' = "error"
            /\ UNCHANGED sigintSent
       ELSE /\ ctl' = "Stopping"
            /\ sigintSent' = TRUE
            /\ UNCHANGED result
    /\ UNCHANGED <<lockVars, now, fsize, manifest, outputs, storeVars, trackerVars, optVars,
                   procAlive, encoder, tempDir, pidFile, clipChan, finChan,
                   clipCounter, tasks, arrived, handled, lastQuery>>

\* cleanupTempFiles(opts.TempDir); cleanupPidFile()
shutdownCleanup == clipMode

\* handleInterrupt from the return of cmd.Wait()
FinishInterrupt ==
    /\ ctl = "Stopping"
    /\ waitReturns
    /\ IF shutdownCleanup
       THEN /\ tempDir' = FALSE
            /\ fsize' = [p \in Paths |-> NoFile]
            /\ manifest' = NoManifest
            /\ pidFile' = FALSE
       ELSE UNCHANGED <<tempDir, fsize, manifest, pidFile>>
    /\ ctl' = "Stopped"
    /\ result' = "nil"
    /\ UNCHANGED <<lockVars, now, outputs, storeVars, trackerVars, optVars, procAlive, encoder,
                   sigintSent, chanVars, clipCounter, tasks, histVars>>

\* the error of cmd.Wait dropped
handleFinished_errDropped(err) == "nil"

\* what handleFinished returns for the value received from signals.finished
handleFinished(err) == IF err # 0 THEN "error" ELSE "nil"

\* case err := <-signals.finished: handleFinished
HandleFinished ==
    /\ loopRunning
    /\ handlerReturned
    /\ Len(finChan) > 0
    /\ finChan' = <<>>
    /\ terminal' = Append(terminal, "finished")
    /\ result' = handleFinished(finChan[1])
    /\ IF finChan[1] # 0
       THEN UNCHANGED pidFile
       ELSE pidFile' = FALSE
    /\ ctl' = "Stopped"
    /\ UNCHANGED <<lockVars, now, fsize, manifest, outputs, storeVars, trackerVars, optVars,
                   procAlive, encoder, sigintSent, tempDir, clipChan, intChan,
                   clipCounter, tasks, arrived, handled, lastQuery>>

\* Capture has returned: the command ends and the process with it
ProcessExit ==
    /\ ctl \in {"Stopped", "Failed"}
    /\ procAlive
    /\ procAlive' = FALSE
    /\ UNCHANGED <<lockVars, now, fsize, manifest, outputs, storeVars, trackerVars, optVars,
                   ctl, result, encoder, sigintSent, tempDir, pidFile, chanVars,
                   clipCounter, tasks, histVars>>

Next ==
    \/ Advance
    \/ Capture
    \/ PollTick
    \/ \E path \in 1..EncFiles, size \in Sizes : EncoderWrite(path, size)
    \/ EncoderExit
    \/ WaiterSend
    \/ SignalClip
    \/ SignalInterrupt
    \/ HandleClip
    \/ HandleInterrupt
    \/ FinishInterrupt
    \/ HandleFinished
    \/ ProcessExit
    \/ \E i \in DOMAIN tasks : MergeStart(i)
    \/ \E i \in DOMAIN tasks : MergeConcat(i)
    \/ \E i \in DOMAIN tasks : MergeCleanup(i)

Spec == Init /\ [][Next]_vars

\* the controller's goroutine is scheduled: once cmd.Wait() can return in
\* handleInterrupt, it does
SpecFair == Spec /\ WF_vars(FinishInterrupt)

(* ---------------- the assembler on its own (SpecMerge) ----------------- *)

\* the lists of up to MaxMerge distinct paths
MergeLists ==
    UNION {{l \in [1..n -> Paths] : \A a, b \in 1..n : a # b => l[a] # l[b]} :
           n \in 0..MaxMerge}

\* one MergeSegments call on any such list, over any state of the files
InitMerge ==
    /\ InitCommon
    /\ fsize \in [Paths -> Sizes \cup {NoFile}]
    /\ maxDuration = 0
    /\ hasManager = FALSE
    /\ tempDir = TRUE
    /\ clipMode = TRUE
    /\ bufferDuration = 1
    /\ segmentDuration = 1
    /\ \E l \in MergeLists :
          tasks = <<NewTask([k \in 1..Len(l) |-> SegmentInfo(l[k], k, k - 1)],
                            generateClipPath(FirstClip), now)>>

NextMerge ==
    \/ MergeStart(1)
    \/ MergeConcat(1)
    \/ MergeCleanup(1)

SpecMerge == InitMerge /\ [][NextMerge]_vars

(* ------------ the store's calls step by step (SpecLock) ---------------- *)

\* Lock() that does not wait for the holder
lockFree_ignored == TRUE

\* sm.mu.Lock() returns only when nobody holds the mutex
lockFree == mu = "free"

\* AddSegment: sm.mu.Lock()
AddLock ==
    /\ addPc = "idle"
    /\ nextNumber < MaxAdds
    /\ lockFree
    /\ mu' = "add"
    /\ addPc' = "locked"
    /\ UNCHANGED <<getPc, now, fsize, manifest, outputs, storeVars, trackerVars, optVars,
                   ctl, result, procAlive, encoder, sigintSent, tempDir, pidFile,
                   chanVars, clipCounter, tasks, histVars>>

\* AddSegment: sm.segments = append(sm.segments, segment)
AddAppend(path) ==
    /\ addPc = "locked"
    /\ segments' = appendSegment(segments, SegmentInfo(path, now, nextNumber))
    /\ addPc' = "appended"
    /\ UNCHANGED <<mu, getPc, now, fsize, manifest, outputs, maxDuration, hasManager,
                   trackerVars, optVars, ctl, result, procAlive, encoder, sigintSent,
                   tempDir, pidFile, chanVars, clipCounter, tasks, histVars>>

\* AddSegment: sm.cleanupOldSegments()
AddSweep ==
    /\ addPc = "appended"
    /\ LET r == cleanupOldSegments(segments, fsize, now) IN
       /\ segments' = r.segments
       /\ fsize' = r.fsize
    /\ addPc' = "swept"
    /\ UNCHANGED <<mu, getPc, now, manifest, outputs, maxDuration, hasManager,
                   trackerVars, optVars, ctl, result, procAlive, encoder, sigintSent,
                   tempDir, pidFile, chanVars, clipCounter, tasks, histVars>>

\* AddSegment: the deferred sm.mu.Unlock(), and the caller's st.nextNumber++
AddUnlock ==
    /\ addPc = "swept"
    /\ mu' = "free"
    /\ addPc' = "idle"
    /\ nextNumber' = nextNumber + 1
    /\ lastQuery' = NoQuery
    /\ UNCHANGED <<getPc, now, fsize, manifest, outputs, storeVars, seen, fileSize,
                   optVars, ctl, result, procAlive, encoder, sigintSent, tempDir,
                   pidFile, chanVars, clipCounter, tasks, arrived, handled, terminal>>

\* GetRecentSegments: sm.mu.Lock()
GetLock ==
    /\ getPc = "idle"
    /\ lockFree
    /\ mu' = "get"
    /\ getPc' = "locked"
    /\ UNCHANGED <<addPc, now, fsize, manifest, outputs, storeVars, trackerVars, optVars,
                   ctl, result, procAlive, encoder, sigintSent, tempDir, pidFile,
                   chanVars, clipCounter, tasks, histVars>>

\* GetRecentSegments: the loop over sm.segments
GetRead(d) ==
    /\ getPc = "locked"
    /\ lastQuery' = [d |-> d, at |-> now, res |-> GetRecentSegments(segments, now, d),
                     prev |-> <<>>]
    /\ getPc' = "read"
    /\ UNCHANGED <<mu, addPc, now, fsize, manifest, outputs, storeVars, trackerVars,
                   optVars, ctl, result, procAlive, encoder, sigintSent, tempDir,
                   pidFile, chanVars, clipCounter, tasks, arrived, handled, terminal>>

\* GetRecentSegments: the deferred sm.mu.Unlock()
GetUnlock ==
    /\ getPc = "read"
    /\ mu' = "free"
    /\ getPc' = "idle"
    /\ UNCHANGED <<addPc, now, fsize, manifest, outputs, storeVars, trackerVars, optVars,
                   ctl, result, procAlive, encoder, sigintSent, tempDir, pidFile,
                   chanVars, clipCounter, tasks, histVars>>

\* the poller's add and the loop's read, each in its own goroutine
NextLock ==
    \/ Advance
    \/ AddLock
    \/ \E path \in Paths : AddAppend(path)
    \/ AddSweep
    \/ AddUnlock
    \/ GetLock
    \/ \E d \in 0..MaxQuery : GetRead(d)
    \/ GetUnlock

SpecLock == InitStore /\ [][NextLock]_vars

(* ------------- the poller and the encoder (SpecPoller) ----------------- *)

\* a clip-mode session before Capture
InitPoller == Init /\ clipMode

\* Capture in clip mode with nothing failing
PollerStart ==
    /\ ctl = "Idle"
    /\ Capture
    /\ ctl' = "Running" /\ hasManager'

\* a round of the poller within the poller session's time
PollerTick ==
    /\ now + PollInterval <= MaxPollTime
    /\ PollRound

NextPoller ==
    \/ PollerStart
    \/ PollerTick
    \/ \E path \in Paths, size \in Sizes : EncoderWrite(path, size)

SpecPoller == InitPoller /\ [][NextPoller]_vars

(* ------ the store of a default clip-mode session (SpecScenario) -------- *)

\* the poller registers a segment every defaultSegmentDuration seconds up to here
ScenarioEnd == 10 * defaultSegmentDuration
ScenarioPaths == 1..(ScenarioEnd \div defaultSegmentDuration + 1)

\* setupSegmentManager after applyDefaults on unset durations
InitScenario ==
    /\ InitCommon
    /\ tasks = <<>>
    /\ fsize = [p \in ScenarioPaths |-> minSegmentSize + 1]
    /\ hasManager = TRUE
    /\ tempDir = TRUE
    /\ clipMode = TRUE
    /\ bufferDuration = defaultBufferDuration
    /\ segmentDuration = defaultSegmentDuration
    /\ maxDuration = bufferDuration + segmentDuration

\* AddSegment for the segment that is due now, the nextNumber-th
ScenarioAdd ==
    /\ now <= ScenarioEnd
    /\ now = nextNumber * segmentDuration
    /\ LET r == AddSegment(segments, fsize, nextNumber + 1, nextNumber, now) IN
       /\ segments' = r.segments
       /\ fsize' = r.fsize
    /\ nextNumber' = nextNumber + 1
    /\ lastQuery' = NoQuery
    /\ UNCHANGED <<lockVars, now, manifest, outputs, maxDuration, hasManager, seen, fileSize,
                   optVars, ctl, result, procAlive, encoder, sigintSent, tempDir,
                   pidFile, chanVars, clipCounter, tasks, arrived, handled, terminal>>

\* the time to the next segment passes
ScenarioAdvance ==
    /\ now < ScenarioEnd
    /\ now < nextNumber * segmentDuration
    /\ now' = now + segmentDuration
    /\ UNCHANGED <<lockVars, fsize, manifest, outputs, storeVars, trackerVars, optVars, ctl,
                   result, procAlive, encoder, sigintSent, tempDir, pidFile,
                   chanVars, clipCounter, tasks, histVars>>

NextScenario ==
    \/ ScenarioAdd
    \/ ScenarioAdvance
    \/ \E d \in {segmentDuration, bufferDuration, maxDuration} : StoreQuery(d)

SpecScenario == InitScenario /\ [][NextScenario]_vars

(* ------------------------ claims on the store -------------------------- *)

\* the indices of the stored segments whose startTime is strictly later than t - d
RecentIdx(t, d) == {i \in DOMAIN segments : segments[i].StartTime > t - d}

Age(seg, t) == t - seg.StartTime

\* C1: a recentSegments(d) call returns exactly the stored segments whose startTime
\* is strictly later than now - d, in insertion order: as many as there are such
\* segments, and the k-th returned is the k-th such segment of the list.
C1_RecentExact ==
    lastQuery.d >= 0 =>
        LET idx == RecentIdx(lastQuery.at, lastQuery.d) IN
        /\ Len(lastQuery.res) = Cardinality(idx)
        /\ \A k \in 1..Len(lastQuery.res) :
              \E i \in idx : /\ lastQuery.res[k] = segments[i]
                             /\ Cardinality({j \in idx : j < i}) = k - 1

\* a query that returned two or more segments and left out at least one stored segment
C1_Witness ==
    /\ lastQuery.d >= 0
    /\ Len(lastQuery.res) >= 2
    /\ Len(lastQuery.res) < Len(segments)

\* C2: when an add returns (the list changes only in AddSegment), no segment left
\* in the store is older than retentionWindow.
C2_NoStaleAfterAdd ==
    [][segments' # segments =>
          \A i \in DOMAIN segments' : Age(segments'[i], now') <= maxDuration']_vars

\* an add has evicted a segment and deleted its file, and the store is not empty
C2_Witness ==
    /\ nextNumber >= 2
    /\ 0 < Len(segments)
    /\ Len(segments) < nextNumber
    /\ \E p \in Paths : fsize[p] = NoFile

\* C3 as stated: no recentSegments call, whatever its duration, returns a segment
\* older than now - retentionWindow.
C3_Original ==
    lastQuery.d >= 0 =>
        \A k \in 1..Len(lastQuery.res) :
            Age(lastQuery.res[k], lastQuery.at) <= maxDuration

\* C3 amended: a recentSegments call whose duration is at most retentionWindow
\* never returns a segment older than now - retentionWindow, however long the
\* store has gone without an add.
C3_Amended ==
    (lastQuery.d >= 0 /\ lastQuery.d <= maxDuration) =>
        \A k \in 1..Len(lastQuery.res) :
            Age(lastQuery.res[k], lastQuery.at) <= maxDuration

\* a query of duration retentionWindow on a store that has gone without an add
\* long enough to hold a segment older than retentionWindow
C3_Witness ==
    /\ lastQuery.d = maxDuration
    /\ \E i \in DOMAIN segments : Age(segments[i], lastQuery.at) > maxDuration

(* ------------------------ claims on the poller ------------------------- *)

\* C4: the poller registers a file (marks it seen and adds it to the store) only at
\* a tick where the file has a size record from an earlier tick, its size equals
\* that record and is at least the minimum threshold: a first observation never
\* registers, and neither does a tick that finds the file grown.
C4_RegisterOnlyStable ==
    [][\A p \in Paths :
          (p \in seen' /\ p \notin seen) =>
              /\ fileSize[p] # NoSize
              /\ fsize[p] = fileSize[p]
              /\ fsize[p] >= minSegmentSize
              /\ nextNumber' > nextNumber]_vars

\* one file has been registered while another, observed before, still waits
C4_Witness ==
    /\ seen # {}
    /\ \E q \in Paths \ seen : fileSize[q] # NoSize /\ fsize[q] # NoFile

(* ----------------------- claims on the assembler ----------------------- *)

\* the positions of a list whose file exists with at least the minimum size
ValidIdx(segs, fs) ==
    {k \in DOMAIN segs : fs[segs[k].Path] # NoFile /\ fs[segs[k].Path] >= minSegmentSize}

\* C5: createConcatFile leaves out exactly the segments whose file is missing or
\* smaller than the minimum size, writes the paths of the others to the manifest
\* in their original order, and returns no error if and only if at least one
\* segment survives; the assembly then fails only if the concatenation itself
\* fails, and otherwise writes the clip.
C5_ManifestExact ==
    /\ [](\A i \in DOMAIN tasks :
            (tasks[i].pc = "done" /\ Len(tasks[i].list) > 0) =>
                /\ tasks[i].err \in {"", "ffmpeg"}
                /\ tasks[i].err = "" => tasks[i].out \in outputs)
    /\ [][\A i \in DOMAIN tasks :
          (tasks[i].pc = "start" /\ tasks'[i].pc # "start" /\ Len(tasks[i].segs) > 0) =>
              LET segs == tasks[i].segs
                  idx == ValidIdx(segs, fsize) IN
              /\ manifest'.exists
              /\ Len(manifest'.lines) = Cardinality(idx)
              /\ \A k \in 1..Len(manifest'.lines) :
                    \E j \in idx : /\ manifest'.lines[k] = segs[j].Path
                                   /\ Cardinality({h \in idx : h < j}) = k - 1
              /\ (idx # {}) = (tasks'[i].pc = "concat")
              /\ (idx # {}) = (tasks'[i].err = "")
              /\ (idx # {}) => tasks'[i].list = manifest'.lines]_vars

\* three segments, the second one's file gone: the clip is built from the other two
C5_Witness ==
    \E i \in DOMAIN tasks :
        /\ Len(tasks[i].segs) = 3
        /\ fsize[tasks[i].segs[2].Path] = NoFile
        /\ tasks[i].list = <<tasks[i].segs[1].Path, tasks[i].segs[3].Path>>
        /\ tasks[i].pc = "done"
        /\ tasks[i].err = ""
        /\ tasks[i].out \in outputs

(* ---------------------- claims on the controller ----------------------- *)

\* C6: the clip counter starts at 1 and is one more than the number of assemblies
\* spawned, the i-th assembly writes to base + three-digit i + extension, no two
\* assemblies of a session have the same output path, and the counter changes
\* only when the control loop handles a clip trigger and spawns an assembly.
C6_DistinctOutputs ==
    /\ [](/\ ctl \in {"Running", "Stopping", "Stopped"} =>
                clipCounter = FirstClip + Len(tasks)
          /\ \A i \in DOMAIN tasks :
                /\ tasks[i].out.base = "base" /\ tasks[i].out.ext = "container"
                /\ i < 10 => tasks[i].out.clip = <<0, 0, i>>
          /\ \A i, j \in DOMAIN tasks : i # j => tasks[i].out # tasks[j].out)
    /\ [][clipCounter' # clipCounter =>
             \/ ctl = "Idle" /\ clipCounter' = FirstClip
             \/ /\ ctl = "Running" /\ handled' = handled + 1
                /\ clipCounter' = clipCounter + 1
                /\ Len(tasks') = Len(tasks) + 1]_vars

\* two assemblies are in flight at the same time
C6_Witness ==
    /\ Len(tasks) = 2
    /\ tasks[1].pc = "concat"
    /\ tasks[2].pc = "concat"

\* C7 as stated: while the loop runs in clip mode with a non-empty recent window,
\* every clip trigger delivered has been handled or is waiting to be handled, so
\* two triggers in quick succession lead to two assemblies.
C7_BothTriggersHandled ==
    (/\ clipMode /\ hasManager /\ ctl = "Running"
     /\ Len(GetRecentSegments(segments, now, bufferDuration)) > 0) =>
        handled + clipChan = arrived

\* C8: the shutdown path deletes the temp directory and the tracking file only
\* in the step that follows the forwarded interrupt and the encoder's exit and
\* that makes the controller Stopped; the temp directory is never gone while
\* the encoder is running.
C8_CleanupAfterExit ==
    /\ []((hasManager /\ ~tempDir) => encoder # "running")
    /\ [](ctl = "Stopping" => sigintSent)
    /\ [][(tempDir /\ ~tempDir') =>
             /\ ctl = "Stopping" /\ ctl' = "Stopped"
             /\ sigintSent /\ encoder # "running"]_vars
    /\ [][(ctl = "Stopping" /\ ctl' = "Stopped") =>
             /\ sigintSent /\ encoder # "running"
             /\ clipMode => (~tempDir' /\ ~pidFile')]_vars

\* a clip-mode session stopped by a shutdown event, temp directory and tracking
\* file deleted
C8_Witness ==
    /\ ctl = "Stopped" /\ terminal = <<"interrupt">> /\ result = "nil"
    /\ clipMode /\ hasManager /\ ~tempDir /\ ~pidFile
    /\ \E p \in Paths : p \in seen

\* C9 as stated: in every Stopped state reached through a subprocess-exit event
\* in clip mode, the temp directory and the tracking file have been deleted.
C9_ExitCleansUp ==
    (ctl = "Stopped" /\ terminal = <<"finished">> /\ clipMode) =>
        (~tempDir /\ ~pidFile)

\* C10: the loop handles exactly one terminal event; from then on the controller
\* is Stopping or Stopped (Stopped at once for a subprocess exit), no further
\* terminal event and no clip trigger is handled, and no assembly is spawned.
C10_OneTerminalEvent ==
    /\ [](/\ Len(terminal) <= 1
          /\ (Len(terminal) = 1) = (ctl \in {"Stopping", "Stopped"})
          /\ terminal = <<"finished">> => ctl = "Stopped")
    /\ [][(ctl = "Stopping" \/ ctl = "Stopped") =>
             /\ ctl' \in {"Stopping", "Stopped"}
             /\ terminal' = terminal
             /\ handled' = handled
             /\ clipCounter' = clipCounter
             /\ Len(tasks') = Len(tasks)]_vars

\* the loop has ended on a shutdown event; the subprocess-exit event and a clip
\* trigger that came after it stay in their channels
C10_Witness ==
    /\ ctl = "Stopped" /\ terminal = <<"interrupt">>
    /\ Len(finChan) = 1
    /\ clipChan = 1

\* an assembly that was spawned and has not returned yet
InFlight(i) == tasks[i].pc # "done"

\* C11 as stated: after a shutdown event an assembly in flight can still take
\* its next step, and the step that makes the controller Stopped leaves the
\* manifest and the segment files of an assembly in flight as they were.
C11_AssemblyOutlivesShutdown ==
    /\ []((terminal = <<"interrupt">> /\ \E i \in DOMAIN tasks : InFlight(i)) =>
             procAlive)
    /\ [][(/\ ctl = "Stopping" /\ ctl' = "Stopped"
           /\ \E i \in DOMAIN tasks : InFlight(i)) =>
              (manifest' = manifest /\ fsize' = fsize)]_vars

\* the concatenation of assembly i has run
Concatenated(i) == tasks[i].pc = "cleanup" \/ (tasks[i].pc = "done" /\ Len(tasks[i].list) > 0)

\* C12 as stated: while the loop runs, every assembly whose concatenation has
\* run read a manifest that existed and listed exactly the segments that this
\* assembly validated, whatever the other assemblies did in between.
C12_OwnManifestRead ==
    ctl = "Running" =>
        \A i \in DOMAIN tasks :
            Concatenated(i) =>
                (tasks[i].read.exists /\ tasks[i].read.lines = tasks[i].list)

\* C13 as stated: when a call to assemble has returned, no manifest is left,
\* whichever way the call ended.
C13_ManifestRemovedOnReturn ==
    tasks[1].pc = "done" => ~manifest.exists

\* C14: a call with an empty list returns at its first step with the error
\* "no segments": no manifest is created, the concatenation never runs and no
\* output file is written.
C14_EmptyListFails ==
    /\ []((Len(tasks[1].segs) = 0) =>
             /\ tasks[1].pc \in {"start", "done"}
             /\ tasks[1].pc = "done" => tasks[1].err = "no segments"
             /\ ~manifest.exists
             /\ ~tasks[1].read.exists
             /\ tasks[1].list = <<>>
             /\ outputs = {})
    /\ [][(Len(tasks[1].segs) = 0 /\ tasks[1].pc = "start") =>
              (tasks'[1].pc = "done" /\ manifest' = manifest /\ outputs' = outputs)]_vars

\* the call with the empty list has returned its error
C14_Witness ==
    /\ Len(tasks[1].segs) = 0
    /\ tasks[1].pc = "done"
    /\ tasks[1].err = "no segments"

\* C15: a call with a non-empty list of which no segment passes validation
\* returns the error "no valid segments" from its first step: the concatenation
\* never runs and no output file is written.
C15_AllInvalidFails ==
    (/\ Len(tasks[1].segs) > 0
     /\ ValidIdx(tasks[1].segs, fsize) = {}
     /\ tasks[1].pc # "start") =>
        /\ tasks[1].pc = "done"
        /\ tasks[1].err = "no valid segments"
        /\ ~tasks[1].read.exists
        /\ tasks[1].list = <<>>
        /\ outputs = {}

\* two segments, one file missing and one below the minimum size: the call has failed
C15_Witness ==
    /\ Len(tasks[1].segs) = 2
    /\ fsize[tasks[1].segs[1].Path] = NoFile
    /\ fsize[tasks[1].segs[2].Path] = minSegmentSize - 1
    /\ tasks[1].pc = "done"
    /\ tasks[1].err = "no valid segments"
    /\ outputs = {}

\* C16: when the loop handles a clip trigger while no stored segment started
\* within the last bufferDuration seconds, no assembly is spawned, the clip
\* counter keeps its value, the store, the files and the outputs are left as
\* they were, and the loop is still Running.
C16_EmptyWindowNoAction ==
    [][(/\ handled' = handled + 1
        /\ hasManager
        /\ RecentIdx(now, bufferDuration) = {}) =>
           /\ tasks' = tasks
           /\ clipCounter' = clipCounter
           /\ segments' = segments
           /\ fsize' = fsize
           /\ manifest' = manifest
           /\ outputs' = outputs
           /\ ctl = "Running" /\ ctl' = "Running"]_vars

\* a trigger was handled while the only stored segment was older than the
\* buffer: nothing was spawned and the counter is still the first one
C16_Witness ==
    /\ ctl = "Running" /\ hasManager
    /\ handled = 1 /\ clipChan = 0
    /\ Len(segments) = 1
    /\ RecentIdx(now, bufferDuration) = {}
    /\ tasks = <<>>
    /\ clipCounter = FirstClip

\* C17 as stated: when the shutdown path has returned an error because the
\* interrupt could not be forwarded, the temp directory and the tracking file
\* of a clip-mode session have been deleted.
C17_FailedForwardCleansUp ==
    (/\ ctl = "Stopped" /\ terminal = <<"interrupt">>
     /\ result = "error" /\ clipMode) =>
        (~tempDir /\ ~pidFile)

\* C18 as stated: in clip mode, a controller that was started without getting
\* its temp segment directory has failed with an error and has not started
\* the encoder.
C18_NoTempDirNoStart ==
    (clipMode /\ ctl # "Idle" /\ ~hasManager) =>
        (ctl = "Failed" /\ result = "error" /\ encoder \in {"notStarted", "startFailed"})

\* C19: when cmd.Start fails the controller has failed with an error and stays
\* so: the poller does not run and has seen and registered nothing, no exit
\* event is ever sent, the loop was never entered (no counter, no trigger
\* handled, no terminal event, no assembly) and no tracking file exists.
C19_StartFailureStopsAll ==
    /\ [](encoder = "startFailed" =>
             /\ ctl = "Failed" /\ result = "error"
             /\ ~pidFile
             /\ ~pollerOn /\ seen = {} /\ segments = <<>>
             /\ finChan = <<>>
             /\ clipCounter = 0 /\ handled = 0 /\ terminal = <<>>
             /\ tasks = <<>>)
    /\ [][encoder = "startFailed" => encoder' = "startFailed"]_vars

\* clip mode, the temp directory was created, then the encoder failed to start
C19_Witness ==
    /\ encoder = "startFailed"
    /\ clipMode /\ hasManager /\ tempDir
    /\ ctl = "Failed" /\ result = "error"
    /\ ~procAlive

\* C20: when the loop ends on the subprocess-exit event, the encoder has exited
\* without an interrupt having been forwarded, the controller becomes Stopped,
\* and its result is the error for a non-zero exit status and success for a
\* zero one; the result is not changed afterwards.
C20_ExitStatusDecides ==
    /\ [][(terminal = <<>> /\ terminal' = <<"finished">>) =>
              /\ Len(finChan) = 1
              /\ encoder = "reaped" /\ ~sigintSent
              /\ ctl' = "Stopped"
              /\ (finChan[1] # 0) => result' = "error"
              /\ (finChan[1] = 0) => result' = "nil"]_vars
    /\ [][terminal = <<"finished">> => result' = result]_vars

\* the encoder exited with a non-zero status and the controller returned the error
C20_Witness ==
    /\ ctl = "Stopped" /\ terminal = <<"finished">>
    /\ encoder = "reaped" /\ ~sigintSent
    /\ result = "error"

(* -------------------- further claims on the store ---------------------- *)

\* the sequence numbers of the segments of a list
Numbers(segs) == {segs[i].Number : i \in DOMAIN segs}

\* the paths of the segments of a list
PathsOf(segs) == {segs[i].Path : i \in DOMAIN segs}

\* C21: in an add over a store whose segments have distinct paths, other than
\* the new one's, every stored segment that the call removes from the list has
\* no file when the call returns, and the file of every segment that stays in
\* the list, the new one included, is as it was.
C21_SweepDeletesExactlyEvicted ==
    [][(/\ nextNumber' = nextNumber + 1
        /\ Cardinality(PathsOf(segments)) = Len(segments)
        /\ \A i \in DOMAIN segments' :
              segments'[i].Number = nextNumber => segments'[i].Path \notin PathsOf(segments)) =>
           /\ \A i \in DOMAIN segments :
                 segments[i].Number \notin Numbers(segments') =>
                     fsize'[segments[i].Path] = NoFile
           /\ \A i \in DOMAIN segments' :
                 fsize'[segments'[i].Path] = fsize[segments'[i].Path]
           /\ \A p \in Paths :
                 fsize'[p] # fsize[p] => p \in PathsOf(segments) \ PathsOf(segments')]_vars

\* the third add has evicted the first two segments at once: their files are
\* gone, the file of the segment kept is there
C21_Witness ==
    /\ nextNumber = 3
    /\ Len(segments) = 1 /\ segments[1].Number = 2
    /\ fsize[segments[1].Path] # NoFile
    /\ Cardinality({p \in Paths : fsize[p] = NoFile}) = 2

\* two calls of GetRecentSegments with the same duration and no add between them
Repeated == lastQuery.d >= 0 /\ Len(lastQuery.prev) = 1

\* C22 as stated: the second of two such calls returns what the first returned.
C22_Original ==
    Repeated => lastQuery.res = lastQuery.prev[1].res

\* the elements of a list that started after time c, in the list's order
StartedAfter(res, c) ==
    LET keep(seg) == seg.StartTime > c IN SelectSeq(res, keep)

\* C22 amended: the second call returns the segments of the first result that
\* started after the second call's cutoff, in the same order; it returns the
\* same result whenever the clock reads the same at both calls.
C22_Amended ==
    Repeated =>
        /\ lastQuery.res = StartedAfter(lastQuery.prev[1].res, lastQuery.at - lastQuery.d)
        /\ lastQuery.at = lastQuery.prev[1].at => lastQuery.res = lastQuery.prev[1].res

\* the second call came a second later and returns one segment of the two that
\* the first call returned
C22_Witness ==
    /\ Repeated
    /\ lastQuery.at = lastQuery.prev[1].at + 1
    /\ Len(lastQuery.prev[1].res) = 2
    /\ Len(lastQuery.res) = 1

\* C23: a call of GetRecentSegments, whatever its duration, leaves the store's
\* list and every file as they were.
C23_ReadIsPure ==
    [][(lastQuery' # lastQuery /\ lastQuery'.d >= 0) =>
          (segments' = segments /\ fsize' = fsize /\ maxDuration' = maxDuration)]_vars

\* a call with a duration beyond the retention window, made when a stored
\* segment was older than the window: the segment is returned, is still stored
\* and still has its file
C23_Witness ==
    /\ lastQuery.d > maxDuration
    /\ lastQuery.at = now
    /\ \E i \in DOMAIN segments :
          /\ Age(segments[i], now) > maxDuration
          /\ fsize[segments[i].Path] # NoFile
          /\ \E k \in DOMAIN lastQuery.res : lastQuery.res[k] = segments[i]

\* C24: with bufferDuration 30 and segmentDuration 5, after the adds at
\* 0, 5, ..., 50, GetRecentSegments(30) at 50 returns the six segments added at
\* 25, 30, 35, 40, 45, 50 in that order, and no segment added at 15 or before
\* is in the store.
C24_DefaultScenario ==
    (/\ bufferDuration = 30 /\ segmentDuration = 5 /\ maxDuration = 35
     /\ now = 50 /\ nextNumber = 11
     /\ lastQuery.d = 30 /\ lastQuery.at = 50) =>
        /\ Len(lastQuery.res) = 6
        /\ \A k \in 1..6 :
              /\ lastQuery.res[k].StartTime = 20 + 5 * k
              /\ lastQuery.res[k].Number = 4 + k
              /\ lastQuery.res[k].Path = 5 + k
        /\ \A i \in DOMAIN segments : segments[i].StartTime > 15

\* the call at 50 has returned six segments, the store holds a seventh (added
\* at 20), and the files of the four first segments are gone
C24_Witness ==
    /\ now = 50 /\ nextNumber = 11
    /\ lastQuery.d = 30 /\ lastQuery.at = 50
    /\ Len(lastQuery.res) = 6
    /\ Len(segments) = 7
    /\ \A p \in 1..4 : fsize[p] = NoFile

\* C25 as stated: an add keeps every segment whose age is at most maxDuration.
C25_Original ==
    [][nextNumber' = nextNumber + 1 =>
          \A i \in DOMAIN segments :
              Age(segments[i], now) <= maxDuration =>
                  segments[i].Number \in Numbers(segments')]_vars

\* C25 amended: an add keeps exactly the segments whose age is strictly less
\* than maxDuration; a segment whose age equals maxDuration is expired like
\* the older ones.
C25_Amended ==
    [][nextNumber' = nextNumber + 1 =>
          \A i \in DOMAIN segments :
              (Age(segments[i], now) < maxDuration) =
                  (segments[i].Number \in Numbers(segments'))]_vars

\* the second add came exactly maxDuration after the first and has expired the
\* first segment
C25_Witness ==
    /\ nextNumber = 2
    /\ now = maxDuration
    /\ Len(segments) = 1
    /\ segments[1].Number = 1 /\ segments[1].StartTime = now
    /\ \E p \in Paths : fsize[p] = NoFile

(* -------------------- further claims on the poller --------------------- *)

\* C26 as stated: at a tick, a file not yet seen whose size equals its size
\* record and is at least minSegmentSize is marked seen, gets a sequence number
\* from nextNumber on, is registered and loses its size record; any other file
\* not yet seen only has its size record set to its size.
C26_RegistersAtThreshold ==
    [][now' # now =>
          \A p \in Paths :
              (p \notin seen /\ fsize[p] # NoFile) =>
                  IF fileSize[p] = fsize[p] /\ fsize[p] >= minSegmentSize
                  THEN /\ p \in seen'
                       /\ fileSize'[p] = NoSize
                       /\ \E i \in DOMAIN segments' :
                             /\ segments'[i].Path = p
                             /\ segments'[i].Number >= nextNumber
                             /\ segments'[i].Number < nextNumber'
                  ELSE /\ p \notin seen'
                       /\ fileSize'[p] = fsize[p]]_vars

\* C27: a path once seen stays seen and is never registered again, whatever
\* happens to its segment and its file: the tracker has handed out exactly one
\* number per seen path, the stored segments have distinct paths, all of them
\* seen, and no size record is kept for a seen path.
C27_RegisteredOnce ==
    /\ [](/\ nextNumber = Cardinality(seen)
          /\ Cardinality(PathsOf(segments)) = Len(segments)
          /\ PathsOf(segments) \subseteq seen
          /\ \A p \in seen : fileSize[p] = NoSize)
    /\ [][\A p \in seen :
             /\ p \in seen'
             /\ \A i \in DOMAIN segments' :
                   segments'[i].Path = p => segments'[i].Number < nextNumber]_vars

\* a seen path whose segment was evicted two ticks ago and whose file has been
\* written again with a size that would register: it was not registered again
C27_Witness ==
    \E p \in seen :
        /\ p \notin PathsOf(segments)
        /\ fsize[p] = minSegmentSize + 1
        /\ Len(segments) = 1
        /\ now >= segments[1].StartTime + 2
        /\ nextNumber = 2

\* C28: along the store's list the sequence numbers are strictly increasing and
\* the start times never decrease; every number handed out is below nextNumber;
\* a tick that registers k segments appends them with the numbers nextNumber,
\* ..., nextNumber + k - 1 and leaves the older ones in their order.
C28_NumbersIncrease ==
    /\ [](\A i, j \in DOMAIN segments :
             /\ segments[i].Number < nextNumber
             /\ i < j => /\ segments[i].Number < segments[j].Number
                         /\ segments[i].StartTime <= segments[j].StartTime)
    /\ [][/\ nextNumber' >= nextNumber
          /\ Numbers(segments') \ Numbers(segments) = nextNumber..(nextNumber' - 1)
          /\ \A i \in DOMAIN segments' :
                segments'[i].Number < nextNumber =>
                    \E k \in DOMAIN segments : segments[k] = segments'[i]]_vars

\* three registrations over two ticks, the first segment evicted by the last:
\* the store holds numbers 1 and 2 in that order
C28_Witness ==
    /\ nextNumber = 3
    /\ Len(segments) = 2
    /\ segments[1].Number = 1 /\ segments[2].Number = 2
    /\ segments[1].StartTime < segments[2].StartTime

(* ------------------- claims on the store's lock ------------------------ *)

\* C29: an add and a read never hold the lock together, and the read's loop
\* runs only while no add is between its Lock and its Unlock, so the list it
\* reads is the one before the add or the one after the add and its sweep.
C29_AddAndReadAtomic ==
    /\ [](addPc = "idle" \/ getPc = "idle")
    /\ [](mu = "add" <=> addPc # "idle")
    /\ [](mu = "get" <=> getPc # "idle")
    /\ [][(getPc = "locked" /\ getPc' = "read") => addPc = "idle"]_vars

\* an add stands between its append and its sweep, the list holds the new
\* segment and an expired one, and no read is under way
C29_Witness ==
    /\ addPc = "appended" /\ mu = "add" /\ getPc = "idle"
    /\ \E i, j \in DOMAIN segments :
          /\ segments[i].Number = nextNumber
          /\ segments[j].Number < nextNumber
          /\ Age(segments[j], now) >= maxDuration

(* ------------------- claims on the clip snapshots ---------------------- *)

\* C30: the list an assembly gets is the recent list of the store at the
\* trigger; it never changes afterwards, whatever is added to or evicted from
\* the store, and the manifest the assembly writes lists paths of that list
\* only; no assembly step takes the store's lock, and a poller round is enabled
\* whenever the poller runs and its time has not run out, assemblies in flight
\* or not.
C30_SnapshotAtTrigger ==
    /\ [][/\ Len(tasks') >= Len(tasks)
          /\ \A i \in DOMAIN tasks : tasks'[i].segs = tasks[i].segs
          /\ Len(tasks') > Len(tasks) =>
                /\ Len(tasks') = Len(tasks) + 1
                /\ Numbers(tasks'[Len(tasks')].segs) =
                       {segments[k].Number : k \in RecentIdx(now, bufferDuration)}
          /\ \A i \in DOMAIN tasks :
                (tasks[i].pc = "start" /\ tasks'[i].pc # "start" /\ manifest'.exists) =>
                    \A k \in DOMAIN manifest'.lines :
                        manifest'.lines[k] \in PathsOf(tasks[i].segs)]_vars
    /\ [](mu = "free")
    /\ []((pollerOn /\ now + PollInterval <= MaxTime) => ENABLED PollTick)

\* an assembly is at its concatenation while the segment of its snapshot has
\* been evicted from the store and a newer one registered
C30_Witness ==
    \E i \in DOMAIN tasks :
        /\ tasks[i].pc = "concat"
        /\ Numbers(tasks[i].segs) \cap Numbers(segments) = {}
        /\ Len(segments) >= 1
        /\ pollerOn

(* ----------------- further claims on the controller -------------------- *)

\* C31: while the loop runs with an assembly in flight, every event that waits
\* in its channel can be handled (a clip trigger, a shutdown event, a
\* subprocess exit), and the step in which an assembly returns, with an error
\* or without, changes neither the controller's state nor its result, terminal
\* events or clip counter.
C31_LoopNeverWaits ==
    /\ []((ctl = "Running" /\ \E i \in DOMAIN tasks : InFlight(i)) =>
             /\ clipChan > 0 => ENABLED HandleClip
             /\ intChan > 0 => ENABLED HandleInterrupt
             /\ Len(finChan) > 0 => ENABLED HandleFinished)
    /\ [][\A i \in DOMAIN tasks :
             (InFlight(i) /\ tasks'[i].pc = "done") =>
                 /\ ctl' = ctl /\ result' = result
                 /\ terminal' = terminal /\ clipCounter' = clipCounter
                 /\ chanVars' = chanVars]_vars

\* the first assembly has failed in ffmpeg, the loop still runs, a second
\* assembly is in flight and a shutdown event waits to be handled
C31_Witness ==
    /\ ctl = "Running"
    /\ Len(tasks) = 2
    /\ tasks[1].pc = "done" /\ tasks[1].err = "ffmpeg"
    /\ InFlight(2)
    /\ intChan = 1

\* C32: a store exists only in clip mode and its maxDuration is bufferDuration
\* + segmentDuration; the poller runs only in clip mode; without clip mode no
\* SIGUSR1 ever reaches the clip channel, no trigger is handled, no assembly is
\* spawned, nothing is seen or registered and no temp directory or tracking
\* file exists.
C32_ClipModeOnly ==
    /\ hasManager => (clipMode /\ maxDuration = bufferDuration + segmentDuration)
    /\ pollerOn => clipMode
    /\ ~clipMode =>
          /\ ~hasManager /\ ~pollerOn
          /\ clipChan = 0 /\ handled = 0
          /\ tasks = <<>> /\ clipCounter <= FirstClip
          /\ segments = <<>> /\ seen = {} /\ nextNumber = 0
          /\ ~tempDir /\ ~pidFile

\* a session without clip mode runs, two SIGUSR1 were delivered and none was
\* taken into the clip channel
C32_Witness ==
    /\ ~clipMode
    /\ ctl = "Running" /\ encoder = "running"
    /\ arrived = 2 /\ clipChan = 0 /\ handled = 0
    /\ now >= 1

(* --------------- further claims on the store (second part) ------------- *)

\* C33: a step that is no add, be it the passage of time or a read of any
\* duration, leaves the store's list and every file as they were, also when
\* stored segments are older than maxDuration.
C33_EvictionOnlyInAdd ==
    [][nextNumber' = nextNumber => (segments' = segments /\ fsize' = fsize)]_vars

\* every stored segment is older than maxDuration, none was removed and the
\* files are all there; a read has just been made and has returned nothing
C33_Witness ==
    /\ Len(segments) = 2
    /\ \A i \in DOMAIN segments : Age(segments[i], now) > maxDuration
    /\ \A p \in Paths : fsize[p] # NoFile
    /\ lastQuery.d = maxDuration /\ lastQuery.at = now
    /\ lastQuery.res = <<>>

\* C37: with maxDuration positive, when an add of a path that no stored
\* segment has returns, the segment it inserted is the last element of the
\* list, with the time of the add as its start, and its file is as it was.
C37_NewSegmentStays ==
    [][(/\ nextNumber' = nextNumber + 1
        /\ maxDuration > 0
        /\ \A i \in DOMAIN segments' :
              segments'[i].Number = nextNumber => segments'[i].Path \notin PathsOf(segments)) =>
           /\ Len(segments') >= 1
           /\ segments'[Len(segments')].Number = nextNumber
           /\ segments'[Len(segments')].StartTime = now
           /\ fsize'[segments'[Len(segments')].Path] = fsize[segments'[Len(segments')].Path]
           /\ \A i \in 1..(Len(segments') - 1) : segments'[i].Number < nextNumber]_vars

\* the second add came after the first segment had passed maxDuration: it has
\* swept the first segment and left its own, with its file
C37_Witness ==
    /\ nextNumber = 2
    /\ now > maxDuration /\ maxDuration > 0
    /\ segments # <<>>
    /\ segments[Len(segments)].Number = 1
    /\ segments[Len(segments)].StartTime = now
    /\ fsize[segments[Len(segments)].Path] # NoFile
    /\ \E p \in Paths : fsize[p] = NoFile

\* C38: in every state of the program the start times along the store's list
\* never decrease and no two stored segments have the same path.
C38_ListOrderedNoDuplicate ==
    \A i, j \in DOMAIN segments :
        i < j => /\ segments[i].StartTime <= segments[j].StartTime
                 /\ segments[i].Path # segments[j].Path

\* two segments registered at different ticks are stored in that order, after
\* a clip trigger has read the store
C38_Witness ==
    /\ Len(segments) = 2
    /\ segments[1].StartTime < segments[2].StartTime
    /\ segments[1].Path # segments[2].Path
    /\ handled >= 1
    /\ Len(tasks) >= 1

\* C36: an add made no later than segmentDuration after a clip trigger keeps
\* every segment of that trigger's snapshot in the store and leaves its file as
\* it was; each segment of a snapshot is younger than bufferDuration at the
\* trigger.
C36_SnapshotSafeFromSweep ==
    /\ [](\A i \in DOMAIN tasks : \A k \in DOMAIN tasks[i].segs :
             /\ tasks[i].segs[k].StartTime <= tasks[i].at
             /\ tasks[i].at - tasks[i].segs[k].StartTime < bufferDuration)
    /\ [][nextNumber' > nextNumber =>
             \A i \in DOMAIN tasks :
                 now' <= tasks[i].at + segmentDuration =>
                     \A k \in DOMAIN tasks[i].segs :
                         /\ tasks[i].segs[k].Number \in Numbers(segments')
                         /\ fsize'[tasks[i].segs[k].Path] = fsize[tasks[i].segs[k].Path]]_vars

\* a segment was registered exactly segmentDuration after a trigger: the
\* segment of the trigger's snapshot is still stored and has its file
C36_Witness ==
    \E i \in DOMAIN tasks :
        /\ \E j \in DOMAIN segments :
              segments[j].StartTime = tasks[i].at + segmentDuration
        /\ \A k \in DOMAIN tasks[i].segs :
              /\ tasks[i].segs[k].Number \in Numbers(segments)
              /\ fsize[tasks[i].segs[k].Path] # NoFile

\* C35 as stated: at a tick that finds a file not yet seen with the size of
\* its size record, that size being at least minSegmentSize, the file is marked
\* seen and a segment with its path and the tick's time is in the store.
C35_StableFileRegistered ==
    [][now' # now =>
          \A p \in Paths :
              (/\ p \notin seen /\ fsize[p] # NoFile
               /\ fsize[p] >= minSegmentSize
               /\ fileSize[p] = fsize[p]) =>
                  /\ p \in seen'
                  /\ \E j \in DOMAIN segments' :
                        segments'[j].Path = p /\ segments'[j].StartTime = now']_vars

\* C34: the controller is Stopping only after it forwarded the interrupt; it
\* stays Stopping in every step taken while the encoder runs, whatever time
\* passes, and becomes Stopped only in a step that finds the encoder exited;
\* once the encoder has exited the controller does become Stopped.
C34_StoppedOnlyAfterExit ==
    /\ [](ctl = "Stopping" => sigintSent)
    /\ [][(ctl = "Stopping" /\ encoder = "running") => ctl' = "Stopping"]_vars
    /\ [][(ctl = "Stopping" /\ ctl' # "Stopping") =>
             (ctl' = "Stopped" /\ encoder \in {"exited", "reaped"})]_vars
    /\ ((ctl = "Stopping" /\ encoder # "running") ~> (ctl = "Stopped"))

\* the interrupt was forwarded, the encoder has not exited, and the controller
\* is still Stopping when the session's time is over
C34_Witness ==
    /\ ctl = "Stopping" /\ sigintSent
    /\ encoder = "running"
    /\ now = MaxTime
    /\ terminal = <<"interrupt">>

====
